---- MODULE Spec2Model ----
(***************************************************************************)
(* Model of main.py of Gurobi-model-runner: the tkinter shell, the batch   *)
(* orchestrator solve_models (one thread per click of the solve button),   *)
(* the solve invoker execute_model_from_file with its CaptureOutput scope, *)
(* the temp-file relay read_temp_files and the save action.                *)
(***************************************************************************)
EXTENDS Integers, Sequences, FiniteSets, TLC

\* ---------------------------------------------------------------- bounds
MaxThreads == 2      \* clicks of the solve button in one run of the program

MaxRecords == 2      \* solves relayed through one temp directory on its own

Threads == 1..MaxThreads

\* ------------------------------------------------------------- constants
NORMAL   == "normal"
DISABLED == "disabled"
TEMP_    == "temp_"
TXT      == ".txt"
COLON    == ": "
DASH80   == "--------------------------------------------------------------------------------"
TLR      == "Time limit reached"
NoneDir  == 0

\* A file name is a sequence of tokens; TEMP_ and TXT are the two substrings
\* the relay searches for, the other tokens stand for text free of them.
Path(d, b) == [dir |-> d, base |-> b]
pA  == Path("d1", <<"a">>)
pB  == Path("d1", <<"b">>)
pA2 == Path("d2", <<"a">>)
pT  == Path("d1", <<TEMP_, "a">>)
PathLists == { <<pB, pA>>, <<pA, pA2>> }

TimeLimitTexts == {"0", "abc"}

\* what the solver can produce for a model that solves: variables and log
Var(n, x) == [VarName |-> n, X |-> x]
OutOptimal   == [vars |-> <<Var(<<"x">>, "1")>>, log |-> <<<<"Optimal">>>>]
OutTimeLimit == [vars |-> <<Var(<<"x">>, "2")>>, log |-> <<<<TLR>>>>]
OkOutputs == { OutOptimal, OutTimeLimit }

\* in a batch the solver's output is a function of the model file it reads:
\* d1/a solves to optimality, the other files run into the time limit
SolverOutput(model_file) == IF model_file = pA THEN OutOptimal ELSE OutTimeLimit

\* what the relay is driven with on its own: base names with and without the
\* substrings it searches for, variable names holding COLON or the time-limit
\* text, an empty log, a log whose second line holds the time-limit text; a
\* base name longer than a sheet name may be
LongBase == <<"a_model_name_of_more_than_31_characters">>
RelayBases == { <<"a">>, LongBase, <<TEMP_, "a">>, <<"a", TXT>> }
RelayOutputs ==
    OkOutputs \cup
    { [vars |-> <<Var(<<"x">>, "1"), Var(<<"y">>, "2")>>, log |-> <<>>],
      [vars |-> <<Var(<<"x">>, "1")>>, log |-> << <<"Optimal">>, <<"x", TLR, "y">> >>],
      [vars |-> <<Var(<<TLR>>, "0")>>, log |-> << <<"Optimal">> >>],
      [vars |-> <<Var(<<"x", COLON, "y">>, "1")>>, log |-> << <<"Optimal">> >>] }

\* ------------------------------------------------------ sequence helpers
RECURSIVE Without(_, _)
Without(s, tok) ==
    IF s = <<>> THEN <<>>
    ELSE IF Head(s) = tok THEN Without(Tail(s), tok)
         ELSE <<Head(s)>> \o Without(Tail(s), tok)

Contains(s, tok) == \E k \in 1..Len(s) : s[k] = tok

Perms(S) == { f \in [1..Cardinality(S) -> S] :
                \A x \in S : \E k \in 1..Cardinality(S) : f[k] = x }

\* dict assignment d[key] = val on an insertion-ordered dict
DictHas(d, key) == \E k \in 1..Len(d) : d[k][1] = key
DictPut(d, key, val) ==
    IF DictHas(d, key)
    THEN [k \in 1..Len(d) |-> IF d[k][1] = key THEN <<key, val>> ELSE d[k]]
    ELSE Append(d, <<key, val>>)
DictKeys(d) == [k \in 1..Len(d) |-> d[k][1]]

\* ------------------------------------------------- names (lines 52, 68-70, 194)
basename(p)   == p.base
TempName(p)   == <<TEMP_>> \o basename(p) \o <<TXT>>
IsTempFile(f) == Len(f) >= 1 /\ f[1] = TEMP_ /\ f[Len(f)] = TXT
ModelNameOf(f) == Without(Without(f, TEMP_), TXT)

\* ------------------------------------------ temp file text (lines 53-62)
\* A line is a sequence of tokens; COLON, DASH80 and TLR are the substrings
\* the code searches for, WS is white space.
WS == " "
StatsLines ==
    << <<"Objective Value", COLON, "0">>, <<"Solve Time (seconds)", COLON, "0">>,
       <<"Iterations", COLON, "0">>, <<"Node Count", COLON, "0">> >>

VarLines(vs) == [k \in 1..Len(vs) |-> vs[k].VarName \o <<COLON, vs[k].X>>]

\* "\n".join(log) followed by "\nObjective Value...": an empty log leaves one
\* empty line
JoinedLog(log) == IF log = <<>> THEN << <<>> >> ELSE log

TempFileText(out) ==
    VarLines(out.vars) \o << <<>>, <<DASH80>> >> \o JoinedLog(out.log) \o StatsLines

\* ------------------------------------------ read-back (lines 71-88)
RECURSIVE lstrip(_)
lstrip(l) == IF l # <<>> /\ Head(l) = WS THEN lstrip(Tail(l)) ELSE l
RECURSIVE rstrip(_)
rstrip(l) == IF l # <<>> /\ l[Len(l)] = WS THEN rstrip(SubSeq(l, 1, Len(l) - 1)) ELSE l
strip(l) == rstrip(lstrip(l))

\* l.split(': '): the pieces between the COLON tokens
RECURSIVE split(_)
split(l) ==
    IF ~Contains(l, COLON) THEN <<l>>
    ELSE LET k == CHOOSE j \in 1..Len(l) :
                      l[j] = COLON /\ \A m \in 1..(j - 1) : l[m] # COLON
         IN  <<SubSeq(l, 1, k - 1)>> \o split(SubSeq(l, k + 1, Len(l)))

\* a parse that takes any text
FloatTexts_lenient == {"0", "1", "2", "abc"}

\* the texts float() accepts (lines 87, 191)
FloatTexts == {"0", "1", "2"}
IsFloat(v) == Len(v) = 1 /\ v[1] \in FloatTexts

NoData == [ok |-> TRUE, Variable |-> <<>>, Value |-> <<>>, Log |-> <<>>]

\* the loop over lines of one temp file; ok = FALSE is the ValueError of the
\* unpacking at line 85 or of float() at line 87
RECURSIVE ParseLines(_, _, _)
ParseLines(lines, is_log, data) ==
    IF lines = <<>> \/ ~data.ok THEN data
    ELSE LET line == Head(lines)
             rest == Tail(lines)
         IN  IF is_log
             THEN ParseLines(rest, TRUE, [data EXCEPT !.Log = Append(@, strip(line))])
             ELSE IF strip(line) = <<DASH80>>
             THEN ParseLines(rest, TRUE, data)
             ELSE IF Contains(line, COLON)
             THEN LET parts == split(strip(line))
                  IN  IF Len(parts) = 2 /\ IsFloat(parts[2])
                      THEN ParseLines(rest, FALSE,
                               [data EXCEPT !.Variable = Append(@, parts[1]),
                                            !.Value = Append(@, parts[2][1])])
                      ELSE [data EXCEPT !.ok = FALSE]
             ELSE ParseLines(rest, FALSE, data)

ReadTempFile(lines) == ParseLines(lines, FALSE, NoData)

\* line 200: "Time limit reached" in open(temp_file).read()
HasTimeLimitText(lines) == \E k \in 1..Len(lines) : Contains(lines[k], TLR)

\* lines 200-203: the result published for an item whose temp file has `lines`
ItemStatus(lines) == IF HasTimeLimitText(lines) THEN "time limit" ELSE "solved"

\* ------------------------------------------ read_temp_files (lines 66-95)
EmptyFiles == [x \in {} |-> <<>>]
RemoveFile(files, name) == [x \in (DOMAIN files) \ {name} |-> files[x]]
PutFile(files, name, text) ==
    [x \in (DOMAIN files) \cup {name} |-> IF x = name THEN text ELSE files[x]]

\* the loop of lines 68-89 over os.listdir's answer `order`; it stops at the
\* first file whose parse raises, the files before it being already removed
RECURSIVE ReadLoop(_, _, _)
ReadLoop(order, files, res) ==
    IF order = <<>> THEN [ok |-> TRUE, files |-> files, results |-> res]
    ELSE LET f == Head(order)
         IN  IF ~IsTempFile(f) THEN ReadLoop(Tail(order), files, res)
             ELSE LET data == ReadTempFile(files[f])
                  IN  IF ~data.ok
                      THEN [ok |-> FALSE, files |-> files, results |-> res]
                      ELSE ReadLoop(Tail(order), RemoveFile(files, f),
                                    DictPut(res, ModelNameOf(f),
                                            [Variable |-> data.Variable,
                                             Value |-> data.Value,
                                             Log |-> data.Log]))

read_temp_files(order, files) == ReadLoop(order, files, <<>>)

\* ------------------------------------------ save_to_excel (lines 97-134)
\* A workbook is the sequence of its sheets in the order they are created.
\* A sheet has a name, the label written into row 1 (none on Model_Index),
\* its data entries, the row of the sheet its first entry is on, and the
\* rows whose cell has the red bold font.
\* A sheet name is <<"Model_", idx, kind>>; Model_Index carries no number.
NoIdx == 0

\* a sheet name that leaves the sequence number out
SheetName_unnumbered(idx, kind) == <<"Model_", NoIdx, kind>>

\* lines 115-116: f'Model_{idx}_Solution', f'Model_{idx}_Log'
SheetName(idx, kind) == <<"Model_", idx, kind>>
Model_Index == <<"Model_", NoIdx, "Index">>
NoLabel == <<>>
Label(model_name) == <<"Model File: ">> \o model_name

\* DataFrame.to_excel(index=False, startrow=s): the header is on row s + 1
\* of the sheet, entry j (from 1) on row s + 1 + j
DataRow(startrow, j) == startrow + 1 + j

\* a loop that takes the enumerate index as the row of the cell
EmphasisRow_no_offset(row_idx) == row_idx

\* line 129: sheet.cell(row=row_idx + 1, column=1)
EmphasisRow(row_idx) == row_idx + 1

\* lines 126-130: enumerate(data['Log'], start=2) gives entry j (from 1) the
\* index j + 1
EmphasisedRows(Log) ==
    { EmphasisRow(j + 1) : j \in { k \in 1..Len(Log) : Contains(Log[k], TLR) } }

\* lines 103-106, 115, 119-120
SolutionSheet(idx, model_name, data) ==
    [name      |-> SheetName(idx, "_Solution"),
     label     |-> Label(model_name),
     rows      |-> [j \in 1..Len(data.Variable) |->
                      [Variable |-> data.Variable[j], Value |-> data.Value[j]]],
     first_row |-> DataRow(1, 1),
     bold      |-> {}]

\* lines 109, 116, 122-130
LogSheet(idx, model_name, data) ==
    [name      |-> SheetName(idx, "_Log"),
     label     |-> Label(model_name),
     rows      |-> data.Log,
     first_row |-> DataRow(1, 1),
     bold      |-> EmphasisedRows(data.Log)]

\* lines 99, 111-112, 133-134
IndexSheet(res) ==
    [name      |-> Model_Index,
     label     |-> NoLabel,
     rows      |-> [k \in 1..Len(res) |-> [Number |-> k, File |-> res[k][1]]],
     first_row |-> DataRow(0, 1),
     bold      |-> {}]

\* the sheets of the entries in iteration order, two each, then Model_Index
save_to_excel(res) ==
    [s \in 1..(2 * Len(res) + 1) |->
        IF s = 2 * Len(res) + 1 THEN IndexSheet(res)
        ELSE LET idx == (s + 1) \div 2
             IN  IF s % 2 = 1
                 THEN SolutionSheet(idx, res[idx][1], res[idx][2])
                 ELSE LogSheet(idx, res[idx][1], res[idx][2])]
NoWorkbook == <<>>

\* no file at the path of the save dialog
NoXlsx == [written |-> FALSE, sheets |-> <<>>]

\* the relay on its own before anything was handed to it
NoRelay == [pc |-> "write", recs |-> <<>>, files |-> EmptyFiles,
            results |-> <<>>, book |-> NoWorkbook]

\* ------------------------------------------------------------------ state
VARIABLES
    \* widgets and Tk variables of main(); the path rows are the one row the
    \* program starts with (a row holds any number of paths, joined by ";")
    file_entries, file_entry_widgets, browse_buttons,
    button_add_file, button_solve, save_button, time_limit_entry,
    time_limit_var, progress, result_text,
    \* the message box shown last: <<kind, text>>
    messagebox,
    \* closure variables of main()
    results, temp_dir,
    \* the file system: the temp directories and the saved workbook
    fs, xlsx,
    \* the process-wide streams
    sys_stdout, sys_stderr,
    \* one solve_models coroutine per started thread: position and locals
    pc, model_file_paths, i, time_limit, arg_temp_dir, output, temp_file, err,
    \* sys.stderr as it was when the thread's capture scope was entered
    stderr_before,
    \* one temp directory driven through the relay on its own: the records
    \* handed to it, its files, the dict read back and the workbook saved
    relay

ui      == <<file_entries, file_entry_widgets, browse_buttons, button_add_file,
             button_solve, save_button, time_limit_entry, time_limit_var>>
labels  == <<progress, result_text>>
streams == <<sys_stdout, sys_stderr, output, stderr_before>>
locals  == <<model_file_paths, i, time_limit, arg_temp_dir, temp_file, err>>
program == <<ui, labels, messagebox, results, temp_dir, fs, xlsx, streams,
             pc, locals>>
vars    == <<program, relay>>

ORIG_STDOUT == <<"stdout", 0, 0>>
ORIG_STDERR == <<"stderr", 0, 0>>
StringIO(t, k) == <<"StringIO", t, k>>
NoStream == <<"none", 0, 0>>
NoMsg  == <<"", "">>
NoFile == [dir |-> NoneDir, name |-> <<>>]
NoDirState == [exists |-> FALSE, files |-> EmptyFiles]

Init ==
    /\ file_entries = << <<>> >>            \* the row made at line 293
    /\ file_entry_widgets = <<NORMAL>>
    /\ browse_buttons = <<NORMAL>>
    /\ button_add_file = NORMAL
    /\ button_solve = NORMAL
    /\ save_button = DISABLED               \* line 290
    /\ time_limit_entry = NORMAL
    /\ time_limit_var = "0"                 \* line 254
    /\ progress = [value |-> 0, maximum |-> 0]
    /\ result_text = <<"", <<>>>>
    /\ messagebox = NoMsg
    /\ results = [has_data |-> FALSE, data |-> <<>>]
    /\ temp_dir = NoneDir
    /\ fs = [d \in Threads |-> NoDirState]
    /\ xlsx = NoXlsx
    /\ sys_stdout = ORIG_STDOUT
    /\ sys_stderr = ORIG_STDERR
    /\ pc = [t \in Threads |-> "unborn"]
    /\ model_file_paths = [t \in Threads |-> <<>>]
    /\ i = [t \in Threads |-> 0]
    /\ time_limit = [t \in Threads |-> "0"]
    /\ arg_temp_dir = [t \in Threads |-> NoneDir]
    /\ output = [t \in Threads |-> [_stdout |-> NoStream, _stderr |-> NoStream]]
    /\ temp_file = [t \in Threads |-> NoFile]
    /\ err = [t \in Threads |-> ""]
    /\ stderr_before = [t \in Threads |-> NoStream]
    /\ relay = NoRelay

\* ---------------------------------------------------------- user actions
\* select_files (lines 169-172): the browse button of row e, a non-empty choice
select_files(e, file_paths) ==
    /\ browse_buttons[e] = NORMAL
    /\ file_paths # <<>>
    /\ file_entries' = [file_entries EXCEPT ![e] = file_paths]
    /\ UNCHANGED <<relay, file_entry_widgets, browse_buttons, button_add_file,
                   button_solve, save_button, time_limit_entry, time_limit_var,
                   labels, messagebox, results, temp_dir, fs, xlsx,
                   streams, pc, locals>>

\* typing into time_limit_entry (line 278)
edit_time_limit(text) ==
    /\ time_limit_entry = NORMAL
    /\ time_limit_var' = text
    /\ UNCHANGED <<relay, file_entries, file_entry_widgets, browse_buttons,
                   button_add_file, button_solve, save_button, time_limit_entry,
                   labels, messagebox, results, temp_dir, fs, xlsx,
                   streams, pc, locals>>

\* start_solve_thread (lines 295-298): the solve button starts a new thread
start_solve_thread(t) ==
    /\ button_solve = NORMAL
    /\ pc[t] = "unborn"
    /\ \A u \in Threads : u < t => pc[u] # "unborn"
    /\ pc' = [pc EXCEPT ![t] = "start"]
    /\ UNCHANGED <<relay, ui, labels, messagebox, results, temp_dir, fs, xlsx,
                   streams, locals>>

\* a test of the key alone: 'data' in results
NothingToSave_key_only == ~results.has_data

\* line 230: not results.get('data')
NothingToSave == ~results.has_data \/ results.data = <<>>

\* The file at the path chosen in the save dialog is followed by the names
\* of the sheets it holds, in order.
SheetNames(book) == [s \in 1..Len(book) |-> book[s].name]

\* line 98: the with-block of pd.ExcelWriter left normally
ExcelWriterDone(book) == [written |-> TRUE, sheets |-> SheetNames(book)]

\* line 98: the with-block of pd.ExcelWriter left by an exception after k
\* sheets were written. Leaving the block closes the writer, which stores the
\* workbook as it is at that point in `filename`; no line of save_to_excel or
\* of its caller removes that file.
ExcelWriterLeft(book, k) ==
    [written |-> TRUE, sheets |-> SubSeq(SheetNames(book), 1, k)]

\* save_result_to_excel (lines 228-239); file_path = FALSE: dialog cancelled.
\* save_to_excel returns; or pd.ExcelWriter(filename) raises, nothing being
\* written; or a statement of its with-block raises after some of the sheets.
save_result_to_excel(file_path) ==
    /\ save_button = NORMAL
    /\ IF NothingToSave
       THEN /\ messagebox' = <<"warning", "no results to save">>
            /\ xlsx' = xlsx
       ELSE IF file_path
       THEN LET book == save_to_excel(results.data)
            IN  \/ /\ xlsx' = ExcelWriterDone(book)
                   /\ messagebox' = <<"info", "saved">>
                \/ /\ xlsx' = xlsx
                   /\ messagebox' = <<"error", "cannot open the file">>
                \/ /\ \E k \in 1..(Len(book) - 1) :
                         xlsx' = ExcelWriterLeft(book, k)
                   /\ messagebox' = <<"error", "save_to_excel failed">>
       ELSE UNCHANGED <<xlsx, messagebox>>
    /\ UNCHANGED <<relay, ui, labels, results, temp_dir, fs, streams, pc, locals>>

\* ------------------------------------------------ solve_models (175-225)
\* toggle_buttons(state) (lines 242-249), followed by save_button.config(save)
toggle_buttons(state, save) ==
    /\ button_add_file' = state
    /\ button_solve' = state
    /\ save_button' = save
    /\ file_entry_widgets' = [k \in DOMAIN file_entry_widgets |-> state]
    /\ browse_buttons' = [k \in DOMAIN browse_buttons |-> state]
    /\ time_limit_entry' = state

\* line 180: the paths of all non-empty entries, in entry order
RECURSIVE Flatten(_)
Flatten(entries) ==
    IF entries = <<>> THEN <<>> ELSE Head(entries) \o Flatten(Tail(entries))

\* lines 224-225
ClearEntries == file_entries' = [k \in DOMAIN file_entries |-> <<>>]

\* the coroutine returns: its locals and its CaptureOutput object are gone
Return(t, state) ==
    /\ pc' = [pc EXCEPT ![t] = state]
    /\ model_file_paths' = [model_file_paths EXCEPT ![t] = <<>>]
    /\ i' = [i EXCEPT ![t] = 0]
    /\ time_limit' = [time_limit EXCEPT ![t] = "0"]
    /\ arg_temp_dir' = [arg_temp_dir EXCEPT ![t] = NoneDir]
    /\ temp_file' = [temp_file EXCEPT ![t] = NoFile]
    /\ err' = [err EXCEPT ![t] = ""]
    /\ output' = [output EXCEPT ![t] = [_stdout |-> NoStream, _stderr |-> NoStream]]
    /\ stderr_before' = [stderr_before EXCEPT ![t] = NoStream]
    /\ UNCHANGED <<sys_stdout, sys_stderr>>

\* lines 177-191: mkdtemp, the path list and the empty-list warning and return;
\* then the controls are disabled, progress is reset and the time limit parsed
Begin(t) ==
    /\ pc[t] = "start"
    /\ temp_dir' = t
    /\ fs' = [fs EXCEPT ![t] = [exists |-> TRUE, files |-> EmptyFiles]]
    /\ LET paths == Flatten(file_entries)
       IN  IF paths = <<>>
           THEN /\ messagebox' = <<"warning", "select a model file">>
                /\ Return(t, "Refused")
                /\ UNCHANGED <<ui, progress>>
           ELSE /\ toggle_buttons(DISABLED, DISABLED)
                /\ progress' = [value |-> 0, maximum |-> Len(paths)]
                /\ model_file_paths' = [model_file_paths EXCEPT ![t] = paths]
                /\ IF time_limit_var \in FloatTexts
                   THEN /\ time_limit' = [time_limit EXCEPT ![t] = time_limit_var]
                        /\ pc' = [pc EXCEPT ![t] = "loop"]
                        /\ UNCHANGED err
                   ELSE /\ err' = [err EXCEPT ![t] =
                                     "ValueError: could not convert string to float"]
                        /\ pc' = [pc EXCEPT ![t] = "except"]
                        /\ UNCHANGED time_limit
                /\ UNCHANGED <<file_entries, time_limit_var, messagebox, streams,
                               i, arg_temp_dir, temp_file>>
    /\ UNCHANGED <<relay, result_text, results, xlsx>>

\* line 193: the for loop has a next item, or is over
HasNextItem(t) == pc[t] = "loop" /\ i[t] < Len(model_file_paths[t])
LoopOver(t)    == pc[t] = "loop" /\ i[t] = Len(model_file_paths[t])

\* lines 193-197: the next item is handed to the executor
Dispatching(t) ==
    /\ HasNextItem(t)
    /\ arg_temp_dir' = [arg_temp_dir EXCEPT ![t] = temp_dir]
    /\ pc' = [pc EXCEPT ![t] = "exec_read"]
    /\ UNCHANGED <<relay, ui, labels, messagebox, results, temp_dir,
                   fs, xlsx, streams, model_file_paths, i, time_limit, temp_file, err>>

\* ------------------------------- execute_model_from_file (lines 28-64)
CurrentPath(t) == model_file_paths[t][i[t] + 1]

\* CaptureOutput.__enter__ (lines 16-21) with a new StringIO
Enter(t) ==
    /\ output' = [output EXCEPT ![t] = [_stdout |-> sys_stdout,
                                        _stderr |-> StringIO(t, i[t])]]
    /\ stderr_before' = [stderr_before EXCEPT ![t] = sys_stderr]
    /\ sys_stdout' = StringIO(t, i[t])
    /\ sys_stderr' = StringIO(t, i[t])

\* CaptureOutput.__exit__ (lines 23-26)
Exit(t) ==
    /\ sys_stdout' = output[t]._stdout
    /\ sys_stderr' = output[t]._stderr
    /\ UNCHANGED <<output, stderr_before>>

\* lines 30-37: gp.read raises, or the model is read and the scope entered
ExecRead(t) ==
    /\ pc[t] = "exec_read"
    /\ \/ /\ err' = [err EXCEPT ![t] = "GurobiError: unable to read model"]
          /\ pc' = [pc EXCEPT ![t] = "except"]
          /\ UNCHANGED streams
       \/ /\ Enter(t)
          /\ pc' = [pc EXCEPT ![t] = "exec_opt"]
          /\ UNCHANGED err
    /\ UNCHANGED <<relay, ui, labels, messagebox, results, temp_dir, fs, xlsx,
                   model_file_paths, i, time_limit, arg_temp_dir, temp_file>>

\* lines 39-64. optimize raises inside the scope; or it returns without a
\* solution and v.X (or ObjVal) raises after open(temp_file, "w") created the
\* file; or the temp file is written and its path returned. open() raises
\* when the directory is gone.
ExecOptimize(t) ==
    /\ pc[t] = "exec_opt"
    /\ Exit(t)
    /\ LET d    == arg_temp_dir[t]
           name == TempName(CurrentPath(t))
       IN  \/ /\ err' = [err EXCEPT ![t] = "GurobiError: optimize failed"]
              /\ pc' = [pc EXCEPT ![t] = "except"]
              /\ UNCHANGED <<fs, temp_file>>
           \/ /\ ~fs[d].exists
              /\ err' = [err EXCEPT ![t] = "FileNotFoundError"]
              /\ pc' = [pc EXCEPT ![t] = "except"]
              /\ UNCHANGED <<fs, temp_file>>
           \/ /\ fs[d].exists
              /\ fs' = [fs EXCEPT ![d].files = PutFile(@, name, <<>>)]
              /\ err' = [err EXCEPT ![t] = "AttributeError: unable to retrieve attribute"]
              /\ pc' = [pc EXCEPT ![t] = "except"]
              /\ UNCHANGED temp_file
           \/ /\ fs[d].exists
              /\ fs' = [fs EXCEPT ![d].files =
                           PutFile(@, name, TempFileText(SolverOutput(CurrentPath(t))))]
              /\ temp_file' = [temp_file EXCEPT ![t] = [dir |-> d, name |-> name]]
              /\ pc' = [pc EXCEPT ![t] = "collect"]
              /\ UNCHANGED err
    /\ UNCHANGED <<relay, ui, labels, messagebox, results, temp_dir, xlsx,
                   model_file_paths, i, time_limit, arg_temp_dir>>

\* lines 199-212: the item's result text, progress, yield
Collecting(t) ==
    /\ pc[t] = "collect"
    /\ LET f == temp_file[t]
           model_name == basename(CurrentPath(t))
       IN  IF fs[f.dir].exists /\ f.name \in DOMAIN fs[f.dir].files
           THEN /\ result_text' =
                      <<ItemStatus(fs[f.dir].files[f.name]), model_name>>
                /\ progress' = [progress EXCEPT !.value = i[t] + 1]
                /\ i' = [i EXCEPT ![t] = i[t] + 1]
                /\ pc' = [pc EXCEPT ![t] = "loop"]
                /\ UNCHANGED err
           ELSE /\ err' = [err EXCEPT ![t] = "FileNotFoundError"]
                /\ pc' = [pc EXCEPT ![t] = "except"]
                /\ UNCHANGED <<result_text, progress, i>>
    /\ UNCHANGED <<relay, ui, messagebox, results, temp_dir, fs,
                   xlsx, streams, model_file_paths, time_limit, arg_temp_dir,
                   temp_file>>

\* a handler that reports a fixed text instead of the exception's message
showerror_fixed_text(t) == messagebox' = <<"error", "solve failed">>

\* line 219: messagebox.showerror("Error", str(e))
showerror(t) == messagebox' = <<"error", err[t]>>

\* a handler without line 221: the save button stays enabled
RestoreAfterError_save_enabled == toggle_buttons(NORMAL, NORMAL)

\* a handler without line 220: the controls stay disabled
RestoreAfterError_no_toggle ==
    /\ save_button' = DISABLED
    /\ UNCHANGED <<button_add_file, button_solve, file_entry_widgets,
                   browse_buttons, time_limit_entry>>

\* lines 220-221: the controls after a failure
RestoreAfterError == toggle_buttons(NORMAL, DISABLED)

\* lines 216-217: the controls after a completed batch
RestoreAfterBatch == toggle_buttons(NORMAL, NORMAL)

\* lines 214-217 and 224-225: the loop is over; read_temp_files on the
\* directory temp_dir names now, in the order os.listdir gives (any order)
Completed(t) ==
    /\ LoopOver(t)
    /\ IF ~fs[temp_dir].exists
       THEN /\ err' = [err EXCEPT ![t] = "FileNotFoundError"]
            /\ pc' = [pc EXCEPT ![t] = "except"]
            /\ UNCHANGED <<ui, results, fs, streams, model_file_paths, i,
                           time_limit, arg_temp_dir, temp_file>>
       ELSE \E order \in Perms(DOMAIN fs[temp_dir].files) :
              LET r == read_temp_files(order, fs[temp_dir].files)
              IN  IF ~r.ok
                  THEN /\ fs' = [fs EXCEPT ![temp_dir].files = r.files]
                       /\ err' = [err EXCEPT ![t] = "ValueError"]
                       /\ pc' = [pc EXCEPT ![t] = "except"]
                       /\ UNCHANGED <<ui, results, streams, model_file_paths, i,
                                      time_limit, arg_temp_dir, temp_file>>
                  ELSE /\ fs' = [fs EXCEPT ![temp_dir] =
                                   IF DOMAIN r.files = {} THEN NoDirState
                                   ELSE [exists |-> TRUE, files |-> r.files]]
                       /\ results' = [has_data |-> TRUE, data |-> r.results]
                       /\ RestoreAfterBatch
                       /\ ClearEntries
                       /\ Return(t, "Completed")
                       /\ UNCHANGED time_limit_var
    /\ UNCHANGED <<relay, labels, messagebox, temp_dir, xlsx>>

\* lines 218-225: the exception handler
Failed(t) ==
    /\ pc[t] = "except"
    /\ showerror(t)
    /\ RestoreAfterError
    /\ ClearEntries
    /\ Return(t, "Failed")
    /\ UNCHANGED <<relay, time_limit_var, labels, results, temp_dir, fs, xlsx>>

Next ==
    \/ \E e \in 1..Len(file_entries), file_paths \in PathLists :
          select_files(e, file_paths)
    \/ \E text \in TimeLimitTexts : edit_time_limit(text)
    \/ \E t \in Threads : start_solve_thread(t)
    \/ \E file_path \in BOOLEAN : save_result_to_excel(file_path)
    \/ \E t \in Threads : Begin(t)
    \/ \E t \in Threads : Dispatching(t)
    \/ \E t \in Threads : ExecRead(t)
    \/ \E t \in Threads : ExecOptimize(t)
    \/ \E t \in Threads : Collecting(t)
    \/ \E t \in Threads : Completed(t)
    \/ \E t \in Threads : Failed(t)

Spec == Init /\ [][Next]_vars

\* ------------------------------------------- the relay driven on its own
\* One temp directory, without the shell: up to MaxRecords solves write their
\* temp file and have their result published, read_temp_files reads the
\* directory back, save_to_excel writes the dict it returned.

\* lines 52-64 and 199-203 for one solve: model file d1/<base>, solver
\* output `out`
RelaySolve(base, out) ==
    /\ relay.pc = "write"
    /\ Len(relay.recs) < MaxRecords
    /\ LET name == TempName(Path("d1", base))
           text == TempFileText(out)
       IN  relay' = [relay EXCEPT
                       !.files = PutFile(@, name, text),
                       !.recs  = Append(@, [base |-> base, out |-> out,
                                            status |-> ItemStatus(text)])]
    /\ UNCHANGED program

\* lines 66-95 on the directory, os.listdir answering `order`
RelayRead(order) ==
    /\ relay.pc = "write"
    /\ relay.recs # <<>>
    /\ LET r == read_temp_files(order, relay.files)
       IN  relay' = [relay EXCEPT !.pc = IF r.ok THEN "read" ELSE "error",
                                  !.files = r.files,
                                  !.results = IF r.ok THEN r.results ELSE @]
    /\ UNCHANGED program

\* lines 97-134 on the dict read back
RelaySave ==
    /\ relay.pc = "read"
    /\ relay' = [relay EXCEPT !.pc = "saved", !.book = save_to_excel(relay.results)]
    /\ UNCHANGED program

RelayNext ==
    \/ \E base \in RelayBases, out \in RelayOutputs : RelaySolve(base, out)
    \/ \E order \in Perms(DOMAIN relay.files) : RelayRead(order)
    \/ RelaySave

RelaySpec == Init /\ [][RelayNext]_vars

\* ================================================================ claims
InFlight(t)  == pc[t] \in {"exec_read", "exec_opt"}
Ends(t)      == pc[t] \notin {"Completed", "Failed", "Refused"}
                /\ pc'[t] \in {"Completed", "Failed", "Refused"}
Completes(t) == pc[t] = "loop" /\ pc'[t] = "Completed"
Fails(t)     == pc[t] = "except" /\ pc'[t] = "Failed"
Distinct(s)  == \A j, k \in 1..Len(s) : j # k => s[j] # s[k]
Basenames(paths) == [k \in 1..Len(paths) |-> basename(paths[k])]
SolverErrors == {"GurobiError: unable to read model", "GurobiError: optimize failed",
                 "AttributeError: unable to retrieve attribute"}

\* C1: in every reachable state at most one execute_model_from_file
\* invocation is in flight.
C1_OneSolveInFlight ==
    Cardinality({t \in Threads : InFlight(t)}) <= 1

\* C2: a batch of N tasks with pairwise distinct file paths whose solves all
\* succeeded leaves a BatchResult of exactly N entries when it completes.
C2_OneRecordPerTask ==
    [][\A t \in Threads :
          (Completes(t) /\ Distinct(model_file_paths[t]))
              => Len(results'.data) = Len(model_file_paths[t])]_vars

\* C3: when a batch completes, the keys of the BatchResult, in iteration
\* order, are the model names of the batch in the order they were processed
\* (stated for batches whose model names are pairwise distinct).
C3_ProcessingOrder ==
    [][\A t \in Threads :
          (Completes(t) /\ Distinct(Basenames(model_file_paths[t])))
              => DictKeys(results'.data) = Basenames(model_file_paths[t])]_vars

C5_NoLeakOnEarlyEnd ==
    [][\A t \in Threads :
          (Ends(t) /\ pc'[t] \in {"Refused", "Failed"}) => ~fs'[t].exists]_vars

\* C6: when the with-block of execute_model_from_file exits, sys.stdout and
\* sys.stderr are the objects they were right before it was entered.
C6_StreamsRestored ==
    [][\A t \in Threads :
          (pc[t] = "exec_opt" /\ pc'[t] # "exec_opt")
              => /\ sys_stdout' = output[t]._stdout
                 /\ sys_stderr' = stderr_before[t]]_vars

\* C7: while a batch is between its first dispatch and its end the progress
\* value never decreases, it never exceeds the maximum, and it is N when the
\* batch completes after N successful items.
InBatch(p) == p \in {"loop", "exec_read", "exec_opt", "collect"}
C7_Progress ==
    [][\A t \in Threads :
          /\ (InBatch(pc[t]) /\ InBatch(pc'[t])) => progress'.value >= progress.value
          /\ progress'.value <= progress'.maximum
          /\ Completes(t) => progress.value = Len(model_file_paths[t])]_vars

\* C8: when the solve of an item fails, the handler has added no record and
\* the progress value counts the failed item.
C8_FailedSolveAdvances ==
    [][\A t \in Threads :
          (Fails(t) /\ err[t] \in SolverErrors)
              => /\ results' = results
                 /\ progress'.value = i[t] + 1]_vars

\* C9: a failure sends the batch to the exception handler and nowhere else:
\* the step that raises goes to the handler, the handler shows an error
\* message box whose text is the exception's message, and after it the batch
\* takes no further step (no later item is dispatched).
C9_AbortOnFailure ==
    [][\A t \in Threads :
          /\ (err[t] = "" /\ err'[t] # "") => pc'[t] = "except"
          /\ pc[t] = "except" => pc'[t] \in {"except", "Failed"}
          /\ Fails(t) => (err[t] # "" /\ messagebox' = <<"error", err[t]>>)
          /\ pc[t] = "Failed" => pc'[t] = "Failed"]_vars

\* one batch of two items: the first was collected, the solve of the second
\* raised, and the handler showed that error
C9_Witness ==
    /\ pc[1] = "Failed" /\ pc[2] = "unborn"
    /\ progress = [value |-> 1, maximum |-> 2]
    /\ messagebox = <<"error", "GurobiError: optimize failed">>

\* the steps of one solve_models run after the controls were disabled, but
\* the last one of a batch whose loop is over (Completed, which is defined in
\* every state where LoopOver holds: the directory is gone, or os.listdir
\* answers in some order)
StepBeforeEnd(t) ==
    \/ Dispatching(t) \/ ExecRead(t) \/ ExecOptimize(t)
    \/ Collecting(t) \/ Failed(t)

Entered(t) == pc[t] \in {"loop", "exec_read", "exec_opt", "collect", "except"}

\* the work a run has left: its items not yet collected, then the position
\* inside the current item
Rank(p, n, k) ==
    CASE p = "loop"      -> 4 * (n - k) + 5
      [] p = "exec_read" -> 4 * (n - k) + 4
      [] p = "exec_opt"  -> 4 * (n - k) + 3
      [] p = "collect"   -> 4 * (n - k) + 2
      [] p = "except"    -> 1
      [] OTHER           -> 0

ControlsInteractive ==
    /\ button_add_file = NORMAL
    /\ button_solve = NORMAL
    /\ time_limit_entry = NORMAL
    /\ \A k \in DOMAIN file_entry_widgets : file_entry_widgets[k] = NORMAL
    /\ \A k \in DOMAIN browse_buttons : browse_buttons[k] = NORMAL

\* C10: a batch that has disabled the controls always reaches Completed or
\* Failed: at every point it has a step it can take (the solver call returns
\* or raises, the loop dispatches its next item or is over and completes;
\* nothing another thread or the user does blocks it), every step it takes
\* uses up work it has left, so it ends once its steps are taken; and the
\* step that ends it, in Completed or in Failed, leaves the add-file, solve,
\* browse, path and time-limit controls interactive.
C10_BatchEnds ==
    /\ [](\A t \in Threads :
             Entered(t) => (LoopOver(t) \/ ENABLED StepBeforeEnd(t)))
    /\ [][\A t \in Threads :
             Entered(t) =>
               /\ \/ /\ pc'[t] = pc[t]
                     /\ i'[t] = i[t]
                     /\ model_file_paths'[t] = model_file_paths[t]
                  \/ /\ pc'[t] \in {"loop", "exec_read", "exec_opt", "collect",
                                    "except", "Completed", "Failed"}
                     /\ Rank(pc'[t], Len(model_file_paths'[t]), i'[t])
                          < Rank(pc[t], Len(model_file_paths[t]), i[t])
               /\ pc'[t] \in {"Completed", "Failed"} => ControlsInteractive']_vars

\* both end states: one batch completed, the other failed, the controls are
\* interactive
C10_Witness ==
    /\ pc[1] = "Completed" /\ pc[2] = "Failed"
    /\ ControlsInteractive

\* --------------------------------------------- claims on the save action
BatchResultEmpty == ~results.has_data \/ results.data = <<>>
NoRunMoves == pc' = pc

\* C15: while the BatchResult is empty (no 'data' yet, or an empty dict) no
\* step writes the output file, and a save action invoked then (the one step
\* that shows a message box while no solve_models run moves) shows the
\* warning.
C15_EmptySaveRefused ==
    [][BatchResultEmpty =>
          /\ xlsx' = xlsx
          /\ (NoRunMoves /\ messagebox' # messagebox)
                => messagebox' = <<"warning", "no results to save">>]_vars

\* the save button is enabled over an empty dict (a batch completed by
\* reading an empty directory), the save action was invoked and refused
C15_Witness ==
    /\ results.has_data /\ results.data = <<>>
    /\ save_button = NORMAL
    /\ messagebox = <<"warning", "no results to save">>
    /\ xlsx = NoXlsx

\* C16: a save in which save_to_excel raises part-way leaves the chosen output
\* path as it was before the save: no file with only some of the sheets.
C16_AtomicSave ==
    [][(NoRunMoves /\ messagebox' = <<"error", "save_to_excel failed">>)
          => xlsx' = xlsx]_vars

\* ------------------------------------------- claims on the start of a run
IsNumber(text) == text \in {"0", "1", "2"}
ValueError == "ValueError: could not convert string to float"
Begins(t) == pc[t] = "start" /\ pc'[t] # "start"

\* C17: a run that finds no model file path entered shows the warning and
\* returns; a run that finds paths but a time limit that is no number goes to
\* the exception handler, which shows the error; from there no step of that
\* run follows, so execute_model_from_file is never called for it. (The
\* entries and the time limit are the ones solve_models reads, lines 180 and
\* 191.)
C17_InputErrorsStopTheRun ==
    [][\A t \in Threads :
          /\ (Begins(t) /\ Flatten(file_entries) = <<>>)
                => /\ pc'[t] = "Refused"
                   /\ messagebox' = <<"warning", "select a model file">>
          /\ (Begins(t) /\ Flatten(file_entries) # <<>> /\ ~IsNumber(time_limit_var))
                => /\ pc'[t] = "except"
                   /\ err'[t] = ValueError
          /\ pc[t] = "Refused" => pc'[t] = "Refused"
          /\ (pc[t] = "except" /\ err[t] = ValueError)
                => /\ pc'[t] \in {"except", "Failed"}
                   /\ err'[t] \in {ValueError, ""}
                   /\ Fails(t) => messagebox' = <<"error", ValueError>>
          /\ pc[t] = "Failed" => pc'[t] = "Failed"]_vars

\* both input errors: the first click found no path and was refused, the
\* second found a time limit that is no number and its error was shown
C17_Witness ==
    /\ pc[1] = "Refused"
    /\ pc[2] = "Failed"
    /\ messagebox = <<"error", ValueError>>
    /\ progress.value = 0

\* C19: when a batch completes, the temp directory its run created is gone
\* (and with it every temp file in it).
C19_NoTempAfterSuccess ==
    [][\A t \in Threads : Completes(t) => ~fs'[t].exists]_vars

\* ------------------------------------------------- claims on the relay
VarNames(out)  == [k \in 1..Len(out.vars) |-> out.vars[k].VarName]
VarValues(out) == [k \in 1..Len(out.vars) |-> out.vars[k].X]
LogHasTimeLimit(log) == \E k \in 1..Len(log) : Contains(log[k], TLR)
ReadBackDone == relay.pc \in {"read", "error"}

\* C11: one record written to the temp file and read back by read_temp_files
\* comes back (the read does not raise) with the same variable names and values
\* in the same order and with as many log lines as the captured log had.
C11_RoundTrip ==
    (ReadBackDone /\ Len(relay.recs) = 1)
        => /\ relay.pc = "read"
           /\ Len(relay.results) = 1
           /\ LET data == relay.results[1][2]
                  out  == relay.recs[1].out
              IN  /\ data.Variable = VarNames(out)
                  /\ data.Value = VarValues(out)
                  /\ Len(data.Log) = Len(out.log)

\* C12: the status published for an item is time-limit if and only if a line
\* of its captured solver log contains "Time limit reached".
C12_StatusFromLog ==
    \A k \in 1..Len(relay.recs) :
        (relay.recs[k].status = "time limit") <=> LogHasTimeLimit(relay.recs[k].out.log)

Saved == relay.pc = "saved"
IsLogSheet(sheet) == sheet.name[3] = "_Log"
LastRow(sheet) == sheet.first_row + Len(sheet.rows) - 1

\* C13: in every Model_<n>_Log sheet of a saved workbook the emphasised rows
\* are exactly the rows holding a log line that contains "Time limit reached":
\* never the label row or the header row, never the row of another line; no
\* other sheet has an emphasised row.
C13_EmphasisOnTimeLimitRows ==
    Saved =>
      \A s \in 1..Len(relay.book) :
        LET sheet == relay.book[s]
        IN  IF IsLogSheet(sheet)
            THEN \A r \in (1..(LastRow(sheet) + 1)) \cup sheet.bold :
                   (r \in sheet.bold) <=>
                      /\ r >= sheet.first_row
                      /\ r <= LastRow(sheet)
                      /\ Contains(sheet.rows[r - sheet.first_row + 1], TLR)
            ELSE sheet.bold = {}

\* a saved log sheet of eight rows (label, header, two log lines, the four
\* statistics lines) whose second log line, on row 4, is the emphasised one
C13_Witness ==
    /\ Saved
    /\ \E s \in 1..Len(relay.book) :
          /\ IsLogSheet(relay.book[s])
          /\ Len(relay.book[s].rows) = 6
          /\ relay.book[s].bold = {4}
          /\ ~Contains(relay.book[s].rows[1], TLR)

SheetsOf(book) == { book[s].name : s \in 1..Len(book) }

\* C14: the workbook saved for a dict of N entries has exactly the 2N + 1
\* sheets Model_Index, Model_<n>_Solution and Model_<n>_Log (n = 1..N), no two
\* with the same name, and entry n of Model_Index carries the number n and the
\* model name whose variables are in Model_<n>_Solution and whose log is in
\* Model_<n>_Log.
C14_SheetsByNumber ==
    Saved =>
      LET book == relay.book
          res  == relay.results
          N    == Len(relay.results)
      IN  /\ Len(book) = 2 * N + 1
          /\ \A a, b \in 1..Len(book) : a # b => book[a].name # book[b].name
          /\ SheetsOf(book) =
                {Model_Index} \cup
                { SheetName(n, kind) : n \in 1..N, kind \in {"_Solution", "_Log"} }
          /\ \A s \in 1..Len(book) :
                /\ book[s].name = Model_Index =>
                      /\ Len(book[s].rows) = N
                      /\ \A n \in 1..N :
                            book[s].rows[n] = [Number |-> n, File |-> res[n][1]]
                /\ \A n \in 1..N :
                      /\ book[s].name = SheetName(n, "_Solution") =>
                            /\ book[s].label = Label(res[n][1])
                            /\ Len(book[s].rows) = Len(res[n][2].Variable)
                            /\ \A j \in 1..Len(book[s].rows) :
                                  book[s].rows[j] =
                                     [Variable |-> res[n][2].Variable[j],
                                      Value |-> res[n][2].Value[j]]
                      /\ book[s].name = SheetName(n, "_Log") =>
                            /\ book[s].label = Label(res[n][1])
                            /\ book[s].rows = res[n][2].Log

\* a workbook saved for two entries, the second under an overlength name
C14_Witness ==
    /\ Saved
    /\ Len(relay.results) = 2
    /\ Len(relay.book) = 5
    /\ relay.results[2][1] = LongBase
    /\ relay.book[5].rows[2] = [Number |-> 2, File |-> LongBase]

\* C18: the key under which read_temp_files stores the record of a model file
\* is the base name of that file, also for a base name that contains 'temp_'
\* or '.txt'.
C18_KeyIsBasename ==
    (relay.pc = "read" /\ Len(relay.recs) = 1)
        => DictKeys(relay.results) = <<relay.recs[1].base>>

====
